---- MODULE Spec2Model ----
(***************************************************************************)
(* LabJackStreamer (src/test.py): a Qt window that opens a LabJack device, *)
(* starts a stream, drains it from a QTimer callback, writes every scan    *)
(* to a CSV log and keeps a deque per channel for plotting.                *)
(*                                                                         *)
(* Every handler runs to completion on the Qt event loop, so each handler  *)
(* is one action.  A handler is written as an operator on a record `s` of  *)
(* the object's fields and of the device / file system it talks to; the    *)
(* outcomes of the external calls (which call raises) are its arguments.   *)
(* An exception that no handler catches leaves the handler where it was    *)
(* raised (field exc); the object is left as it then is.                   *)
(***************************************************************************)
EXTENDS Integers, Sequences, FiniteSets, TLC

(* ------------------------------ bounds -------------------------------- *)
\* Capacity of each plot deque (test.py:22 sets 5000; scaled down here).
plot_buffer_size == 2
\* Largest number of complete scans one eStreamRead returns.
MaxBlockScans == 3
\* Scans received over the whole run.
MaxTotalScans == 3
\* Successful ljm.openS calls over the whole run.
MaxStarts == 2
\* Wall-clock seconds the run spans (the clock starts at second 1).
MaxClock == 2
\* Bytes of text the file object returned by open(name, 'w') (test.py:75)
\* holds back before it passes them on to the file: 8192 in CPython, scaled
\* down here; like 8192 it is larger than the header line and than a scan
\* line.
chunk_size == 32
\* Bytes the buffered writer under that file object holds before it writes
\* to the file itself: the file's block size (4096), scaled down as
\* chunk_size is.
buffer_size == 16

(* ------------------------- program constants -------------------------- *)
None == 0
num_channels == 2
DefaultScanRate == 1000
DefaultReadInterval == 100
channels == <<"AIN0", "AIN1">>

\* Sample values, in hundredths of a volt.  The k-th scan the device produces
\* in a run carries 1.0k V on channel 1 and 2.0k V on channel 2, so that every
\* sample of a run is distinct; 9.99 V is the value of a trailing partial scan.
Sample(ch, k) == 100 * ch + k
PartialSample == Sample(9, 99)

\* str(v) for a float v: the shortest decimal text that reads back as v.
Str(v) ==
  CASE v = 101 -> "1.01"
    [] v = 102 -> "1.02"
    [] v = 103 -> "1.03"
    [] v = 104 -> "1.04"
    [] v = 105 -> "1.05"
    [] v = 106 -> "1.06"
    [] v = 107 -> "1.07"
    [] v = 108 -> "1.08"
    [] v = 109 -> "1.09"
    [] v = 201 -> "2.01"
    [] v = 202 -> "2.02"
    [] v = 203 -> "2.03"
    [] v = 204 -> "2.04"
    [] v = 205 -> "2.05"
    [] v = 206 -> "2.06"
    [] v = 207 -> "2.07"
    [] v = 208 -> "2.08"
    [] v = 209 -> "2.09"
    [] v = 999 -> "9.99"

\* float(t), as a reader of the CSV applies it.
ParseFloat(t) ==
  CASE t = "1.01" -> 101
    [] t = "1.02" -> 102
    [] t = "1.03" -> 103
    [] t = "1.04" -> 104
    [] t = "1.05" -> 105
    [] t = "1.06" -> 106
    [] t = "1.07" -> 107
    [] t = "1.08" -> 108
    [] t = "1.09" -> 109
    [] t = "2.01" -> 201
    [] t = "2.02" -> 202
    [] t = "2.03" -> 203
    [] t = "2.04" -> 204
    [] t = "2.05" -> 205
    [] t = "2.06" -> 206
    [] t = "2.07" -> 207
    [] t = "2.08" -> 208
    [] t = "2.09" -> 209
    [] t = "9.99" -> 999

\* f"{timestamp}" for datetime.now().timestamp(), at whole seconds.
TsStr(c) ==
  CASE c = 1 -> "1.0"
    [] c = 2 -> "2.0"
    [] c = 3 -> "3.0"
    [] OTHER -> "4.0"

\* sep.join(fields)
RECURSIVE Join(_, _)
Join(fields, sep) ==
  IF Len(fields) = 0 THEN ""
  ELSE IF Len(fields) = 1 THEN fields[1]
  ELSE fields[1] \o sep \o Join(Tail(fields), sep)

\* header = "timestamp," + ",".join(self.channels) + "\n"
Header == "timestamp," \o Join(channels, ",") \o "\n"

\* for i in range(num_samples): the loop visits every scan index, step 1; the
\* program has no other decimation.
decimation == 1

\* scans_per_read = int(self.scan_rate * self.read_interval / 1000)
scans_per_read_PerSecond(rate, interval) == rate
scans_per_read(rate, interval) == (rate * interval) \div 1000

VARIABLES
  \* fields of LabJackStreamer
  handle, file_handle, timerActive, start_btn, stop_btn, plot_buffers,
  scan_rate, read_interval, windowOpen,
  \* the plot curves' data (the visualization sink)
  curves,
  \* the device driver: open connections, connections streaming, the
  \* scansPerRead each stream was started with, next handle openS returns
  conns, streamOn, devScans, nextConn,
  \* the file system: the text of each file, by name, and the names open for
  \* writing; the file object of file_handle: the text its text layer holds
  \* back (pending) and the text its buffered writer holds (wbuf), neither
  \* yet in the file; the clock
  files, openFiles, pending, wbuf, clock,
  \* history: external calls and prints of the last handler, the last event
  \* and its inputs, the log of the last session, the text given to its
  \* write() calls, whether text given to it was dropped, the scans its polls
  \* got, whether one of its writes raised, whether a stream fault ever
  \* happened, everything appended to each deque, scans received in the run
  ops, ev, logName, handed, lost, received, wfail, faulted, appended, total,
  \* fields of TraceDataModel (src/dataModels.py): _names, _maindata,
  \* _filtdata, _replaceMuscles, and the storage of the numpy arrays the
  \* dictionaries refer to, with the arrays of integer dtype
  names, maindata, filtdata, replaceMuscles, arrays, ints,
  \* history: the values given to the last setAll, the last method call, the
  \* number of calls
  loaded, call, ncalls

tvars == <<names, maindata, filtdata, replaceMuscles, arrays, ints, loaded,
           call, ncalls>>
vars == <<handle, file_handle, timerActive, start_btn, stop_btn, plot_buffers,
          scan_rate, read_interval, windowOpen, curves, conns, streamOn,
          devScans, nextConn, files, openFiles, pending, wbuf, clock, ops, ev, logName,
          handed, lost, received, wfail, faulted, appended, total, tvars>>

Chans == 1..num_channels

(* ----------------------------- helpers -------------------------------- *)
AddOp(s, op) == [s EXCEPT !.ops = Append(@, op)]

\* deque(maxlen=plot_buffer_size).append(v)
DequeAppend_NoEvict(buf, v) ==
  IF Len(buf) = plot_buffer_size THEN buf ELSE Append(buf, v)
DequeAppend(buf, v) ==
  IF Len(buf) = plot_buffer_size THEN Append(Tail(buf), v) ELSE Append(buf, v)

\* line = f"{timestamp}," + ",".join(map(str, scan_values)) + "\n"
Line(ts, vals) ==
  TsStr(ts) \o "," \o Join([ch \in Chans |-> Str(vals[ch])], ",") \o "\n"

(* ------------------------- the log's file object ---------------------- *)
\* open(name, 'w') gives a text file object over a buffered writer over the
\* file; the program never flushes it.  write() keeps text back (pending) and
\* passes it down in chunks, the buffered writer keeps up to buffer_size
\* bytes (wbuf) and writes larger chunks to the file, close() passes down
\* what is left.  `limit` is the size in bytes the file can grow to while the
\* handler runs (the room left on the disk, or a file size limit): a write
\* to the file takes the bytes that fit, and raises OSError when none does.
NoLimit == 0 - 1
Limits == {0, 10, 27, 34, 40, NoLimit}
Room(s, limit) ==
  LET size == Len(s.files[s.file_handle])
  IN IF limit = NoLimit THEN NoLimit
     ELSE IF size >= limit THEN 0 ELSE limit - size
Fits(n, room) == room = NoLimit \/ n <= room
ToFile(s, text) == [s EXCEPT !.files[s.file_handle] = @ \o text]

\* BufferedWriter.flush(): the writer's bytes go to the file; when not all of
\* them fit, those that fit are written, the rest stays and OSError is
\* raised.
BufferFlush(s, limit) ==
  LET room == Room(s, limit)
  IN IF s.wbuf = "" THEN s
     ELSE IF Fits(Len(s.wbuf), room)
       THEN [ToFile(s, s.wbuf) EXCEPT !.wbuf = ""]
       ELSE [ToFile(s, SubSeq(s.wbuf, 1, room))
               EXCEPT !.wbuf = SubSeq(s.wbuf, room + 1, Len(s.wbuf)),
                      !.oserr = TRUE]

\* A write of b to the file itself, which has room for `room` bytes: all of b
\* is written, or the bytes that fit; the rest is kept by the buffered writer
\* if it is no longer than buffer_size, and dropped with an OSError if it is
\* longer or if no byte was written.
RawWrite(s, b, room) ==
  IF Fits(Len(b), room) THEN ToFile(s, b)
  ELSE IF room = 0 \/ Len(b) - room > buffer_size
    THEN [ToFile(s, SubSeq(b, 1, room)) EXCEPT !.oserr = TRUE, !.lost = TRUE]
    ELSE [ToFile(s, SubSeq(b, 1, room))
            EXCEPT !.wbuf = SubSeq(b, room + 1, Len(b))]

\* BufferedWriter.write(b) once the bytes held have been flushed (f): when
\* that flush raised, b is dropped; b is kept when it now fits, and written
\* to the file when longer than buffer_size.
WriteFlushed(f, b, limit) ==
  IF f.oserr THEN [f EXCEPT !.lost = TRUE]
  ELSE IF Len(b) <= buffer_size THEN [f EXCEPT !.wbuf = b]
  ELSE RawWrite(f, b, Room(f, limit))

\* BufferedWriter.write(b): b is kept when it fits next to the bytes held;
\* otherwise those are flushed first.
BufferWrite(s, b, limit) ==
  IF Len(b) <= buffer_size - Len(s.wbuf) THEN [s EXCEPT !.wbuf = @ \o b]
  ELSE WriteFlushed(BufferFlush(s, limit), b, limit)

\* The text layer passes the text it holds back to the buffered writer; the
\* text is no longer held back whether or not that raises.
WriteFlush(s, limit) ==
  IF s.pending = "" THEN s
  ELSE BufferWrite([s EXCEPT !.pending = ""], s.pending, limit)

\* An OSError of the buffered writer leaves write(): the line is not taken.
WriteRaised(s) ==
  IF s.oserr THEN [s EXCEPT !.lost = TRUE, !.wraised = TRUE] ELSE s
\* write(), first step: the text held back is passed down when the line
\* would take it over chunk_size.
MakeRoom(s, line, limit) ==
  IF s.pending # "" /\ Len(s.pending) + Len(line) > chunk_size
    THEN WriteRaised(WriteFlush(s, limit))
    ELSE s
\* write(), last step: the text held back is passed down when it has reached
\* chunk_size.
PassOn(s, limit) ==
  IF Len(s.pending) < chunk_size THEN s ELSE WriteRaised(WriteFlush(s, limit))
\* write(), middle step: the line is added to the text held back.
HoldBack(s, line, limit) ==
  IF s.wraised THEN s ELSE PassOn([s EXCEPT !.pending = @ \o line], limit)

\* self.file_handle.write(line), on a file object no write of which has
\* raised.
WriteLine_Rewrite(s, line, limit) ==
  [s EXCEPT !.pending = line, !.handed = @ \o line]
WriteLine(s, line, limit) ==
  HoldBack(MakeRoom([s EXCEPT !.handed = @ \o line], line, limit), line, limit)

(* -------------------------- cleanup_stream ---------------------------- *)
\* try: if self.handle is not None: eStreamStop; close; self.handle = None
\* except: pass.  dev: which device call raises ("none", "stop": eStreamStop,
\* "close").
ReleaseDevice(s, dev) ==
  IF s.handle # None
    THEN LET a == AddOp(s, "eStreamStop")
         IN IF dev = "stop"
              THEN a
              ELSE LET b == AddOp([a EXCEPT !.streamOn = @ \ {s.handle}],
                                  "close")
                   IN IF dev = "close"
                        THEN b
                        ELSE [b EXCEPT !.conns = @ \ {s.handle},
                                       !.handle = None]
    ELSE s

\* if self.file_handle is not None: self.file_handle.close();
\* self.file_handle = None, outside the try.  close() flushes the text layer
\* (the text held back goes to the buffered writer, which is then flushed),
\* then closes the buffered writer, which flushes once more and closes the
\* file.  The file is closed also when a flush raised; what the writer still
\* holds is dropped, and the OSError leaves cleanup_stream before file_handle
\* is reset.  close() of a file object that is closed already does nothing.
FlushBuffer(s, limit) == IF s.oserr THEN s ELSE BufferFlush(s, limit)
Closed(s) ==
  IF s.oserr THEN [s EXCEPT !.craised = TRUE, !.exc = TRUE]
             ELSE [s EXCEPT !.file_handle = None]
Discard(s) ==
  Closed([s EXCEPT !.openFiles = @ \ {s.file_handle},
                   !.lost = @ \/ s.wbuf # "",
                   !.wbuf = ""])
CloseFile(s, limit) ==
  IF s.file_handle = None THEN s
  ELSE IF s.file_handle \notin s.openFiles
    THEN [s EXCEPT !.file_handle = None]
  ELSE Discard(BufferFlush(
         FlushBuffer(WriteFlush(AddOp([s EXCEPT !.oserr = FALSE], "file.close"),
                                limit), limit), limit))

cleanup_stream(s, dev, limit) == CloseFile(ReleaseDevice(s, dev), limit)

(* --------------------------- stop_streaming --------------------------- *)
\* self.start_btn.setEnabled(True); self.stop_btn.setEnabled(False);
\* print("Stream stopped"): reached when cleanup_stream returned.
Stopped(s) ==
  IF s.exc THEN s
  ELSE AddOp([s EXCEPT !.start_btn = TRUE, !.stop_btn = FALSE],
             "print Stream stopped")
stop_streaming_NoTimerStop(s, dev, limit) ==
  Stopped(cleanup_stream(s, dev, limit))
stop_streaming(s, dev, limit) ==
  Stopped(cleanup_stream(AddOp([s EXCEPT !.timerActive = FALSE], "timer.stop"),
                         dev, limit))

(* --------------------------- start_streaming -------------------------- *)
\* except Exception: print(...); self.cleanup_stream()
StartFailed_NoCleanup(s, dev, limit) == AddOp(s, "print Error starting stream")
StartFailed(s, dev, limit) ==
  cleanup_stream(AddOp(s, "print Error starting stream"), dev, limit)

\* open(f"labjack_data_{timestamp}.csv", 'w'): the file of that name is
\* created or truncated, and a new file object that holds no text is bound
\* to file_handle.
OpenLog(s, now) ==
  [s EXCEPT !.file_handle = now,
            !.files = (now :> "") @@ @,
            !.openFiles = @ \cup {now},
            !.pending = "", !.wbuf = "", !.handed = "", !.lost = FALSE]

\* failStep: the call that raises ("none", "openS", "open", "eStreamStart").
\* The header is the first text the new file object gets and is shorter than
\* chunk_size: its write() holds it back and passes nothing to the file.
\* now: the clock second, which names the log file.
\* The rest of the try once the header is written (w): eStreamStart, the
\* print and read_timer.start.
StartStream(w, failStep, dev, limit) ==
  IF w.wraised THEN StartFailed(w, dev, limit)
  ELSE IF failStep = "eStreamStart"
    THEN StartFailed(AddOp(w, "eStreamStart"), dev, limit)
  ELSE [AddOp(AddOp(AddOp(w, "eStreamStart"), "print Stream started"),
              "timer.start")
          EXCEPT !.streamOn = @ \cup {w.handle},
                 !.devScans = scans_per_read(w.scan_rate, w.read_interval),
                 !.timerActive = TRUE, !.start_btn = FALSE, !.stop_btn = TRUE]
\* ljm.openS succeeded: the handle is stored.
Opened(s) ==
  [s EXCEPT !.handle = s.nextConn, !.conns = @ \cup {s.nextConn},
            !.nextConn = @ + 1]
start_streaming_HeaderLate(s, failStep, dev, limit, now) ==
  LET a == AddOp(s, "openS")
  IN IF failStep = "openS" THEN StartFailed(a, dev, limit) ELSE
  LET b == AddOp(Opened(a), "open")
  IN IF failStep = "open" THEN StartFailed(b, dev, limit) ELSE
  LET c == AddOp(OpenLog(b, now), "eStreamStart")
  IN IF failStep = "eStreamStart" THEN StartFailed(c, dev, limit) ELSE
  LET d == AddOp([c EXCEPT !.streamOn = @ \cup {c.handle},
                           !.devScans = scans_per_read(s.scan_rate,
                                                       s.read_interval)],
                 "write")
      w == WriteLine(d, Header, limit)
  IN IF w.wraised THEN StartFailed(w, dev, limit) ELSE
  LET f == AddOp(AddOp(w, "print Stream started"), "timer.start")
  IN [f EXCEPT !.timerActive = TRUE, !.start_btn = FALSE, !.stop_btn = TRUE]
start_streaming(s, failStep, dev, limit, now) ==
  IF failStep = "openS" THEN StartFailed(AddOp(s, "openS"), dev, limit)
  ELSE IF failStep = "open"
    THEN StartFailed(AddOp(Opened(AddOp(s, "openS")), "open"), dev, limit)
  ELSE StartStream(
         WriteLine(AddOp(OpenLog(AddOp(Opened(AddOp(s, "openS")), "open"), now),
                         "write"),
                   Header, limit),
         failStep, dev, limit)

(* -------------------------- read_stream_data -------------------------- *)
\* One pass of the for loop, for scan i (0-based) of the block: the scan's
\* values are appended to the deques, then its line is written.  ts is
\* datetime.now().timestamp(), read once per scan.  When the write raises,
\* failAt is the 1-based scan the loop was at.
ScanValues_ChannelMajor(data, i) ==
  [ch \in Chans |-> data[(ch - 1) * (Len(data) \div num_channels) + i + 1]]
ScanValues(data, i) == [ch \in Chans |-> data[i * num_channels + ch]]
AppendScan(s, vals) ==
  [s EXCEPT !.plot_buffers = [ch \in Chans |-> DequeAppend(@[ch], vals[ch])]]
LeftAt(s, i) == IF s.wraised THEN [s EXCEPT !.failAt = i + 1] ELSE s
ProcessScan(s, data, i, limit, ts) ==
  LeftAt(WriteLine(AddOp(AppendScan(s, ScanValues(data, i)), "write"),
                   Line(ts, ScanValues(data, i)), limit), i)
\* The for loop over the block's scans from scan i on; it is left when a
\* write has raised.
RECURSIVE ProcessScans(_, _, _, _, _, _)
ProcessScans(s, data, i, n, limit, tss) ==
  IF i >= n \/ s.wraised THEN s
  ELSE ProcessScans(ProcessScan(s, data, i, limit, tss[i + 1]),
                    data, i + 1, n, limit, tss)

\* update_plots: curve.setData(list(buffer)) for each non-empty buffer; with
\* sinkOk false the first setData raises.
RECURSIVE PlotFrom(_, _, _)
PlotFrom(s, ch, sinkOk) ==
  IF ch > num_channels THEN [st |-> s, raised |-> FALSE]
  ELSE IF Len(s.plot_buffers[ch]) > 0
    THEN IF sinkOk
           THEN PlotFrom([AddOp(s, "setData")
                            EXCEPT !.curves[ch] = s.plot_buffers[ch]],
                         ch + 1, sinkOk)
           ELSE [st |-> AddOp(s, "setData"), raised |-> TRUE]
    ELSE PlotFrom(s, ch + 1, sinkOk)
update_plots(s, sinkOk) == PlotFrom(s, 1, sinkOk)

\* r: what eStreamRead does: [kind |-> "noscans"] raises LJMError
\* NO_SCANS_RETURNED, [kind |-> "error"] raises any other error,
\* [kind |-> "block", data |-> ...] returns the flat interleaved samples.
\* wlimit: the size the log's file can grow to while the loop runs; climit:
\* the same while stop_streaming runs.
\* except Exception as e: print(f"Error reading stream: {e}");
\* self.stop_streaming()
ReadFailed(s, dev, climit) ==
  stop_streaming(AddOp(s, "print Error reading stream"), dev, climit)
\* self.update_plots() after the loop; an exception of the loop or of
\* update_plots reaches the except branch.
Plotted(u, dev, climit) ==
  IF u.raised THEN ReadFailed(u.st, dev, climit) ELSE u.st
AfterScans(p, sinkOk, dev, climit) ==
  IF p.wraised THEN ReadFailed(p, dev, climit)
  ELSE Plotted(update_plots(p, sinkOk), dev, climit)

read_stream_data_RetryRead(s, r, sinkOk, dev, wlimit, climit, tss) ==
  IF r.kind = "noscans" THEN AddOp(s, "eStreamRead")
  ELSE IF r.kind = "error"
    THEN stop_streaming(AddOp(AddOp(AddOp(s, "eStreamRead"), "eStreamRead"),
                              "print Stream error"), dev, climit)
  ELSE AfterScans(ProcessScans(AddOp(s, "eStreamRead"), r.data, 0,
                               Len(r.data) \div num_channels, wlimit, tss),
                  sinkOk, dev, climit)
read_stream_data_KeepPartial(s, r, sinkOk, dev, wlimit, climit, tss) ==
  IF r.kind = "noscans" THEN AddOp(s, "eStreamRead")
  ELSE IF r.kind = "error"
    THEN stop_streaming(AddOp(AddOp(s, "eStreamRead"), "print Stream error"),
                        dev, climit)
  ELSE
    LET num_samples == Len(r.data) \div num_channels
        rest == Len(r.data) - num_samples * num_channels
        p == ProcessScans(AddOp(s, "eStreamRead"), r.data, 0, num_samples,
                          wlimit, tss)
        q == [p EXCEPT !.plot_buffers =
                [ch \in Chans |->
                   IF ch <= rest
                     THEN DequeAppend(@[ch], r.data[num_samples * num_channels + ch])
                     ELSE @[ch]]]
    IN AfterScans(IF p.wraised THEN p ELSE q, sinkOk, dev, climit)
read_stream_data(s, r, sinkOk, dev, wlimit, climit, tss) ==
  IF r.kind = "noscans" THEN AddOp(s, "eStreamRead")
  ELSE IF r.kind = "error"
    THEN stop_streaming(AddOp(AddOp(s, "eStreamRead"), "print Stream error"),
                        dev, climit)
  ELSE AfterScans(ProcessScans(AddOp(s, "eStreamRead"), r.data, 0,
                               Len(r.data) \div num_channels, wlimit, tss),
                  sinkOk, dev, climit)

(* ----------------------------- closeEvent ----------------------------- *)
\* self.stop_streaming(); event.accept(): when stop_streaming raises,
\* accept() is not reached.
Accepted(s) == IF s.exc THEN s ELSE [s EXCEPT !.windowOpen = FALSE]
closeEvent(s, dev, limit) == Accepted(stop_streaming(s, dev, limit))

(* ------------------------- the state machine -------------------------- *)
\* The fields the handlers read and write, as one record, at handler entry.
Cur ==
  [handle |-> handle, file_handle |-> file_handle, timerActive |-> timerActive,
   start_btn |-> start_btn, stop_btn |-> stop_btn, plot_buffers |-> plot_buffers,
   scan_rate |-> scan_rate, read_interval |-> read_interval,
   windowOpen |-> windowOpen, curves |-> curves, conns |-> conns,
   streamOn |-> streamOn, devScans |-> devScans, nextConn |-> nextConn,
   files |-> files, openFiles |-> openFiles, pending |-> pending,
   wbuf |-> wbuf, handed |-> handed, lost |-> lost,
   ops |-> <<>>, oserr |-> FALSE, wraised |-> FALSE, failAt |-> 0,
   craised |-> FALSE, exc |-> FALSE]

Apply(s) ==
  /\ handle' = s.handle
  /\ file_handle' = s.file_handle
  /\ timerActive' = s.timerActive
  /\ start_btn' = s.start_btn
  /\ stop_btn' = s.stop_btn
  /\ plot_buffers' = s.plot_buffers
  /\ scan_rate' = s.scan_rate
  /\ read_interval' = s.read_interval
  /\ windowOpen' = s.windowOpen
  /\ curves' = s.curves
  /\ conns' = s.conns
  /\ streamOn' = s.streamOn
  /\ devScans' = s.devScans
  /\ nextConn' = s.nextConn
  /\ files' = s.files
  /\ openFiles' = s.openFiles
  /\ pending' = s.pending
  /\ wbuf' = s.wbuf
  /\ handed' = s.handed
  /\ lost' = s.lost
  /\ ops' = s.ops

Has(seq, x) == \E i \in 1..Len(seq) : seq[i] = x

\* An input that names a failing call is drawn only when the handler reaches
\* that call.
DevRelevant(dev, o) ==
  /\ dev = "stop" => Has(o, "eStreamStop")
  /\ dev = "close" => Has(o, "close")

\* failAt: the scan of the block whose log write raised (0: none did);
\* fclose: the log's close() raised; raised: an exception left the handler.
Event(name, arg, n, partial, failAt, sinkOk, dev, fclose, raised) ==
  [name |-> name, arg |-> arg, n |-> n, partial |-> partial, failAt |-> failAt,
   sinkOk |-> sinkOk, dev |-> dev, fclose |-> fclose, raised |-> raised]

DevFails == {"none", "stop", "close"}
FailSteps == {"none", "openS", "open", "eStreamStart"}

\* The blocks eStreamRead may return when k scans were read before: the next
\* n scans of the device's stream, interleaved, possibly followed by a
\* trailing partial scan.
RECURSIVE ScanSeq(_, _)
ScanSeq(k, n) ==
  IF n = 0 THEN <<>>
  ELSE [ch \in Chans |-> Sample(ch, k + 1)] \o ScanSeq(k + 1, n - 1)
Blocks(k) == {ScanSeq(k, n) \o p : n \in 0..MaxBlockScans,
                                  p \in {<<>>, <<PartialSample>>}}
Reads(k) == {[kind |-> "noscans", data |-> <<>>], [kind |-> "error", data |-> <<>>]}
              \cup {[kind |-> "block", data |-> b] : b \in Blocks(k)}

\* The clock readings of a loop over n scans that starts at second c: the
\* clock never goes back.
TimeSeqs(c, n) ==
  {t \in [1..n -> c..MaxClock] : \A i \in 1..(n - 1) : t[i] <= t[i + 1]}

\* The complete scans of a block, flat.
WholeScans(data) == SubSeq(data, 1, (Len(data) \div num_channels) * num_channels)
\* Channel ch of the first m scans of a block.
ChannelOf(data, ch, m) == [i \in 1..m |-> data[(i - 1) * num_channels + ch]]

InitProgram ==
  /\ handle = None
  /\ file_handle = None
  /\ timerActive = FALSE
  /\ start_btn = TRUE
  /\ stop_btn = FALSE
  /\ plot_buffers = [ch \in Chans |-> <<>>]
  /\ windowOpen = TRUE
  /\ curves = [ch \in Chans |-> <<>>]
  /\ conns = {}
  /\ streamOn = {}
  /\ devScans = 0
  /\ nextConn = 1
  /\ files = <<>>
  /\ openFiles = {}
  /\ pending = ""
  /\ wbuf = ""
  /\ clock = 1
  /\ ops = <<>>
  /\ ev = Event("init", "none", 0, FALSE, 0, TRUE, "none", FALSE, FALSE)
  /\ logName = None
  /\ handed = ""
  /\ lost = FALSE
  /\ received = <<>>
  /\ wfail = FALSE
  /\ faulted = FALSE
  /\ appended = [ch \in Chans |-> <<>>]
  /\ total = 0

\* test.py constructs no TraceDataModel.
NoTraceModel ==
  /\ names = <<>> /\ maindata = <<>> /\ filtdata = <<>>
  /\ replaceMuscles = <<>> /\ arrays = <<>> /\ ints = {}
  /\ loaded = <<>> /\ call = [name |-> "none"] /\ ncalls = 0

Init ==
  /\ InitProgram
  /\ NoTraceModel
  /\ scan_rate = DefaultScanRate
  /\ read_interval = DefaultReadInterval

\* An input that sets how far the file can grow is drawn only when the
\* handler's outcome depends on it: a handler is run with no limit (s1), and
\* with a limit only if that changes what it does.  The device calls and the
\* setData calls of a handler come before its file.close, so whether a
\* failing call is reached is read from s1.

\* The start button is clicked.
Start ==
  /\ windowOpen /\ start_btn /\ nextConn <= MaxStarts
  /\ \E failStep \in FailSteps, dev \in DevFails :
     \E s1 \in {start_streaming(Cur, failStep, dev, NoLimit, clock)} :
       /\ DevRelevant(dev, s1.ops)
       /\ \E limit \in Limits :
          \E s \in {IF limit = NoLimit THEN s1
                    ELSE start_streaming(Cur, failStep, dev, limit, clock)} :
            LET opened == Has(s.ops, "write")
            IN /\ limit # NoLimit => s # s1
               /\ Apply(s)
               /\ ev' = Event("start", failStep, 0, FALSE, 0, TRUE, dev,
                              s.craised, s.exc)
               /\ logName' = IF opened THEN clock ELSE logName
               /\ received' = IF opened THEN <<>> ELSE received
               /\ wfail' = IF opened THEN s.wraised ELSE wfail
               /\ UNCHANGED <<clock, faulted, appended, total,
                            tvars>>

\* The read timer fires.
Poll ==
  /\ windowOpen /\ timerActive
  /\ \E r \in Reads(total) :
     LET n == Len(r.data) \div num_channels
     IN
     /\ total + n <= MaxTotalScans
     /\ \E tss \in TimeSeqs(clock, n) :
        \E p1 \in {ProcessScans(AddOp(Cur, "eStreamRead"), r.data, 0, n, NoLimit,
                                   tss)} :
        \E wlimit \in Limits :
        /\ wlimit # NoLimit =>
             ProcessScans(AddOp(Cur, "eStreamRead"), r.data, 0, n, wlimit, tss)
               # p1
        /\ \E sinkOk \in BOOLEAN, dev \in DevFails :
           \E s1 \in {read_stream_data(Cur, r, sinkOk, dev, wlimit, NoLimit, tss)} :
           /\ DevRelevant(dev, s1.ops)
           /\ ~sinkOk => Has(s1.ops, "setData")
           /\ \E climit \in Limits :
              \E s \in {IF climit = NoLimit THEN s1
                        ELSE read_stream_data(Cur, r, sinkOk, dev, wlimit,
                                              climit, tss)} :
              LET m == IF s.failAt > 0 THEN s.failAt ELSE n
              IN /\ climit # NoLimit => s # s1
                 /\ Apply(s)
                 /\ ev' = Event("poll", r.kind, n,
                                Len(r.data) % num_channels # 0,
                                s.failAt, sinkOk, dev, s.craised, s.exc)
                 /\ received' = received \o WholeScans(r.data)
                 /\ wfail' = (wfail \/ s.wraised)
                 /\ faulted' = (faulted \/ r.kind = "error" \/ s.wraised)
                 /\ appended' =
                      [ch \in Chans |-> appended[ch] \o ChannelOf(r.data, ch, m)]
                 /\ total' = total + n
                 /\ clock' = IF n > 0 THEN tss[n] ELSE clock
                 /\ UNCHANGED <<logName,
                              tvars>>

\* The stop button is clicked.
Stop ==
  /\ windowOpen /\ stop_btn
  /\ \E dev \in DevFails :
     \E s1 \in {stop_streaming(Cur, dev, NoLimit)} :
       /\ DevRelevant(dev, s1.ops)
       /\ \E limit \in Limits :
          \E s \in {IF limit = NoLimit THEN s1
                    ELSE stop_streaming(Cur, dev, limit)} :
            /\ limit # NoLimit => s # s1
            /\ Apply(s)
            /\ ev' = Event("stop", "none", 0, FALSE, 0, TRUE, dev, s.craised,
                           s.exc)
            /\ UNCHANGED <<clock, logName, received, wfail, faulted, appended,
                         total, tvars>>

\* The window is asked to close; once the event is accepted the application
\* exits.
Close ==
  /\ windowOpen
  /\ \E dev \in DevFails :
     \E s1 \in {closeEvent(Cur, dev, NoLimit)} :
       /\ DevRelevant(dev, s1.ops)
       /\ \E limit \in Limits :
          \E s \in {IF limit = NoLimit THEN s1
                    ELSE closeEvent(Cur, dev, limit)} :
            /\ limit # NoLimit => s # s1
            /\ Apply(s)
            /\ ev' = Event("close", "none", 0, FALSE, 0, TRUE, dev, s.craised,
                           s.exc)
            /\ UNCHANGED <<clock, logName, received, wfail, faulted, appended,
                         total, tvars>>

\* A second of wall-clock time passes.
Tick ==
  /\ windowOpen /\ clock < MaxClock
  /\ clock' = clock + 1
  /\ ops' = <<>>
  /\ ev' = Event("tick", "none", 0, FALSE, 0, TRUE, "none", FALSE, FALSE)
  /\ UNCHANGED <<handle, file_handle, timerActive, start_btn, stop_btn,
                 plot_buffers, scan_rate, read_interval, windowOpen, curves,
                 conns, streamOn, devScans, nextConn, files, openFiles,
                 pending, wbuf, logName, handed, lost, received, wfail,
                 faulted, appended, total,
                 tvars>>

Next == Start \/ Poll \/ Stop \/ Close \/ Tick

Spec == Init /\ [][Next]_vars


(* ======================= properties of the program ==================== *)
IsPrefix(a, b) == Len(a) <= Len(b) /\ SubSeq(b, 1, Len(a)) = a
LastN(q, n) == IF Len(q) <= n THEN q ELSE SubSeq(q, Len(q) - n + 1, Len(q))

\* A text cut at every occurrence of the character c: text.split(c).
RECURSIVE Find(_, _, _)
Find(text, c, i) ==
  IF i > Len(text) THEN 0
  ELSE IF SubSeq(text, i, i) = c THEN i ELSE Find(text, c, i + 1)
RECURSIVE Split(_, _)
Split(text, c) ==
  LET k == Find(text, c, 1)
  IN IF k = 0 THEN <<text>>
     ELSE <<SubSeq(text, 1, k - 1)>> \o Split(SubSeq(text, k + 1, Len(text)), c)
\* The complete lines of a text (those ended by a newline), each as its
\* comma-separated fields, and the text after the last newline.
Rows(text) ==
  LET parts == Split(text, "\n")
  IN [i \in 1..(Len(parts) - 1) |-> Split(parts[i], ",")]
HeaderRow == Rows(Header)[1]

\* What a reader of the CSV gets from its complete lines: the header line
\* skipped, the timestamp column dropped, every other field parsed,
\* scan-major.
ReadBack(text) ==
  LET content == Rows(text)
  IN IF Len(content) <= 1 THEN <<>>
     ELSE [i \in 1..((Len(content) - 1) * num_channels) |->
             ParseFloat(content[2 + ((i - 1) \div num_channels)]
                               [2 + ((i - 1) % num_channels)])]

\* The log of the current (or last) session, once start_streaming opened it:
\* the text of its file, the complete lines of it, and whether it is open.
\* `handed` is the text the session's write() calls were given, Written its
\* lines.
HasLog == logName # None
LogText == files[logName]
Log == Rows(LogText)
Written == Rows(handed)
LogOpen == logName \in openFiles

\* C1: the scans read back from a session's log are, in order, the scans the
\* polls returned.  The text in the file is always a leading part of the
\* text the program wrote (nothing duplicated or reordered), and its complete
\* lines read back as a prefix of the scans received; the program wrote one
\* line per scan received, in order (up to the scan whose write raised);
\* unless text was dropped because the file could not take it, what was
\* written is in the file or held by the open file object, so that the
\* closed log is the text written and reads back as all the scans received.
C1_LogHoldsEveryScanInOrder ==
  HasLog => /\ IsPrefix(LogText, handed)
            /\ IsPrefix(ReadBack(LogText), received)
            /\ IsPrefix(ReadBack(handed), received)
            /\ ~wfail => ReadBack(handed) = received
            /\ ~lost => LogText \o wbuf \o pending = handed
            /\ (~lost /\ ~LogOpen) =>
                 (LogText = handed /\ ReadBack(LogText) = received)
\* A session of three scans, logged at different seconds, has been stopped
\* and its log reads back as the three scans.
C1_Witness ==
  /\ HasLog /\ ~LogOpen /\ ~lost
  /\ ev.name = "stop"
  /\ Len(received) = 3 * num_channels
  /\ Len(Log) = 4 /\ Log[2][1] # Log[4][1]
  /\ LogText = handed /\ ReadBack(LogText) = received

SampleWidths == {4, 8}
ScansReceived == Len(received) \div num_channels

\* C2 as stated: during a session the log is nothing but fixed-width samples,
\* its size totalScansWritten * numChannels * sampleWidth bytes.
C2_SizeIsScansTimesWidth ==
  (HasLog /\ timerActive) =>
     \E w \in SampleWidths : Len(LogText) = ScansReceived * num_channels * w

\* C3: each plot deque holds the last plot_buffer_size values appended to its
\* channel since construction (all of them if fewer), oldest first, however
\* the values were split into blocks.
C3_BufferIsLastC ==
  \A ch \in Chans : plot_buffers[ch] = LastN(appended[ch], plot_buffer_size)
\* A block longer than the capacity has been appended.
C3_Witness ==
  /\ ev.name = "poll" /\ ev.n > plot_buffer_size /\ ev.failAt = 0
  /\ \A ch \in Chans : /\ Len(appended[ch]) > plot_buffer_size
                       /\ plot_buffers[ch] = LastN(appended[ch], plot_buffer_size)

ErrorPrinted(o) ==
  \/ Has(o, "print Stream error")
  \/ Has(o, "print Error reading stream")
  \/ Has(o, "print Error starting stream")
DeviceCommands == {"openS", "eStreamStart", "eStreamRead", "eStreamStop", "close"}
FileOps == {"open", "write", "file.close"}
ReleaseOps == {"eStreamStop", "close", "file.close"}

\* C4 as stated: a poll whose read returns an empty block or raises "no scans
\* returned" leaves the session streaming, the handles open, the log and the
\* deques unchanged, and reports no fault.
C4_TransientChangesNothing ==
  [][(ev'.name = "poll" /\ (ev'.arg = "noscans" \/ (ev'.arg = "block" /\ ev'.n = 0)))
       => /\ timerActive' /\ stop_btn'
          /\ handle' = handle /\ conns' = conns
          /\ file_handle' = file_handle /\ openFiles' = openFiles
          /\ files' = files /\ handed' = handed
          /\ plot_buffers' = plot_buffers
          /\ ~ErrorPrinted(ops')]_vars

\* A stream fault: the read raised another error, or a log write raised.
StreamFault == ev.name = "poll" /\ (ev.arg = "error" \/ ev.failAt > 0)

\* C5 as stated: after a stream fault the session is in a terminal Error
\* state; the program has no reset, so no session streams again.
C5_ErrorIsTerminal == faulted => ~timerActive

\* C6 as stated: after a failed start the connection opened in the attempt is
\* closed and not retained, the log is closed, the timer is off and the start
\* control is available.
C6_FailedStartReleasesEverything ==
  (ev.name = "start" /\ ev.arg # "none") =>
     /\ ev.arg # "openS" => (handle # nextConn - 1 /\ (nextConn - 1) \notin conns)
     /\ file_handle = None /\ openFiles = {}
     /\ ~timerActive /\ start_btn

\* C7: whenever the read timer is running the device handle and the log file
\* handle are set and open; and a handler that stops the timer does so before
\* its first stream-stop, device close or file close.
C7_TimerRunsOnlyWithOpenHandles ==
  /\ timerActive => /\ handle # None /\ handle \in conns
                    /\ file_handle # None /\ file_handle \in openFiles
  /\ \A i \in 1..Len(ops) :
       (ops[i] \in ReleaseOps /\ ev.name # "start")
          => \E j \in 1..(i - 1) : ops[j] = "timer.stop"
\* A stop that released the device and the file.
C7_Witness ==
  /\ ev.name = "stop" /\ ~timerActive
  /\ Has(ops, "eStreamStop") /\ Has(ops, "close") /\ Has(ops, "file.close")

\* C8 as stated: stop() on an Idle session issues no device command and no
\* file operation and leaves the session as it is.
C8_StopWhenIdleIsNoOp ==
  [][(~timerActive /\ ev'.name \in {"stop", "close"})
       => /\ \A i \in 1..Len(ops') : ops'[i] \notin DeviceCommands \cup FileOps
          /\ ~timerActive'
          /\ handle' = handle /\ conns' = conns /\ streamOn' = streamOn
          /\ file_handle' = file_handle /\ files' = files]_vars

\* C9 as stated: when eStreamStop or the device close raises inside stop(),
\* stop() still closes the log, raises nothing to its caller and leaves the
\* session Idle (start control enabled, stop control disabled) with the timer
\* stopped.
C9_StopFinalizesDespiteDeviceFailure ==
  (ev.name \in {"stop", "close"} /\ ev.dev # "none") =>
     /\ openFiles = {} /\ file_handle = None
     /\ ~ev.raised
     /\ ~timerActive /\ start_btn /\ ~stop_btn

\* round(n / d), Python's: to the nearest integer, ties to the even one.
RoundHalfEven(n, d) ==
  LET q == n \div d
      r == n % d
  IN IF 2 * r < d THEN q
     ELSE IF 2 * r > d THEN q + 1
     ELSE IF q % 2 = 0 THEN q ELSE q + 1
Max(a, b) == IF a >= b THEN a ELSE b

\* C10: the scans-per-read a stream is started with is
\* max(1, round(sampleRate * pollIntervalMs / 1000)), which is 100 for the
\* program's 1000 Hz and 100 ms; it is set by the start and no callback
\* changes it while the session streams.
C10_ScansPerReadIsRoundedAndPositive ==
  [][/\ timerActive' =>
          /\ devScans' = Max(1, RoundHalfEven(scan_rate' * read_interval', 1000))
          /\ (scan_rate' = 1000 /\ read_interval' = 100) => devScans' = 100
     /\ (timerActive /\ timerActive') => devScans' = devScans]_vars
\* A poll of a streaming session: the stream was started with 100 scans per
\* read and the poll has left that number alone.
C10_Witness ==
  /\ ev.name = "poll" /\ timerActive /\ devScans = 100
  /\ scan_rate = 1000 /\ read_interval = 100

\* The scan of the device's stream a sample value belongs to.
ScanOf(v) == v % 100
\* Channel ch of scans 0, D, 2D, ... of a block of n scans that follows k
\* scans of the stream.
KeptEvery(ch, k, n, D) ==
  [j \in 1..((n + D - 1) \div D) |-> Sample(ch, k + 1 + (j - 1) * D)]
SameLength(bufs) == \A c1, c2 \in Chans : Len(bufs[c1]) = Len(bufs[c2])
Aligned(bufs) ==
  \A c1, c2 \in Chans : \A i \in 1..Len(bufs[c1]) :
     i <= Len(bufs[c2]) => ScanOf(bufs[c1][i]) = ScanOf(bufs[c2][i])
PollOfBlock == ev'.name = "poll" /\ ev'.arg = "block"

\* C11: after every poll of a block the deques have one length and are
\* aligned scan by scan, and the scans a poll keeps from the block it
\* processed are those at indices 0, D, 2D, ..., each with all its channel
\* values (the loop's D is 1: every complete scan).  A block is processed
\* unless a log write raised, the fatal fault that ends the session.
C11_KeptScansAreEveryDth ==
  [][PollOfBlock =>
       /\ SameLength(plot_buffers') /\ Aligned(plot_buffers')
       /\ ev'.failAt = 0 =>
            \A ch \in Chans :
              plot_buffers'[ch] =
                LastN(plot_buffers[ch] \o KeptEvery(ch, total, ev'.n, decimation),
                      plot_buffer_size)]_vars
\* A poll has processed a block of two scans on top of an earlier scan.
C11_Witness ==
  /\ ev.name = "poll" /\ ev.arg = "block" /\ ev.n = 2 /\ ev.failAt = 0
  /\ total = 3
  /\ \A ch \in Chans :
       plot_buffers[ch] = KeptEvery(ch, 1, 2, decimation)

\* C12 as stated: after a clean stop of a streaming session the session's
\* file holds exactly one footer: one line beyond the header and the scan
\* lines.
C12_OneFooterAfterStop ==
  (ev.name = "stop" /\ HasLog /\ ~lost) => Len(Log) - 1 - ScansReceived = 1

IsDeviceCommand(o) == o \in DeviceCommands
FailedFileOpen == ev.name = "start" /\ ev.arg = "open"

\* C13 as stated: a start attempt in which opening the log file raises has
\* issued no device command.
C13_FileOpenFailsBeforeAnyDeviceCommand ==
  FailedFileOpen => \A i \in 1..Len(ops) : ~IsDeviceCommand(ops[i])
\* C13 amended: the device is opened before the log file.  When opening the
\* log raises, the attempt is aborted: no start-stream is issued, nothing is
\* written, no file is left open and the timer is not started; the device
\* commands of the attempt are the open, then the abort's stream-stop and
\* (unless the stream-stop raised) close.
C13_FileOpenFailsAfterDeviceOpen ==
  FailedFileOpen =>
     /\ ops[1] = "openS" /\ ops[2] = "open"
     /\ SelectSeq(ops, IsDeviceCommand) =
          IF ev.dev = "stop" THEN <<"openS", "eStreamStop">>
                             ELSE <<"openS", "eStreamStop", "close">>
     /\ ~Has(ops, "write") /\ ~Has(ops, "timer.start")
     /\ file_handle = None /\ openFiles = {} /\ ~ev.raised
     /\ ~timerActive /\ start_btn /\ ~stop_btn
\* Opening the log raised and the abort closed the device.
C13_Witness ==
  /\ FailedFileOpen /\ ev.dev = "none"
  /\ Has(ops, "close") /\ handle = None /\ conns = {}

Count(seq, x) == Len(SelectSeq(seq, LAMBDA o : o = x))
FailedStart == ev.name = "start" /\ ev.arg # "none"
\* The call that raised was made once in the handler that ran.
FailedCallMadeOnce ==
  /\ (ev.name = "poll" /\ ev.arg = "error") => Count(ops, "eStreamRead") = 1
  /\ (ev.name = "poll" /\ ev.failAt > 0)
       => (Count(ops, "eStreamRead") = 1 /\ Count(ops, "write") = ev.failAt)
  /\ (ev.name = "start" /\ ev.arg \in {"openS", "open", "eStreamStart"})
       => Count(ops, ev.arg) = 1

\* C14: after a stream fault or a failed start the timer is not running and
\* the call that failed was made exactly once; and while the timer is not
\* running no handler other than an explicit start reads the device, starts
\* a stream or writes to a log.
C14_NoAutomaticRetry ==
  [][/\ (StreamFault' \/ FailedStart') => (~timerActive' /\ FailedCallMadeOnce')
     /\ (~timerActive /\ ev'.name # "start")
          => /\ ~Has(ops', "eStreamRead") /\ ~Has(ops', "eStreamStart")
             /\ ~Has(ops', "write") /\ ~Has(ops', "openS")
             /\ files' = files /\ handed' = handed /\ ~timerActive']_vars
\* A read error after two scans were logged: one read, the session stopped.
C14_Witness ==
  /\ ev.name = "poll" /\ ev.arg = "error" /\ ~timerActive
  /\ Count(ops, "eStreamRead") = 1 /\ ScansReceived = 2 /\ Len(Log) = 3

\* The values of a sequence.
Range(seq) == {seq[i] : i \in 1..Len(seq)}

\* C15 as stated: a successful start leaves every deque empty, and while a
\* session streams every value in a deque is a sample one of this session's
\* polls received.
C15_BuffersArePerSession ==
  /\ (ev.name = "start" /\ ev.arg = "none") =>
        \A ch \in Chans : plot_buffers[ch] = <<>>
  /\ timerActive => \A ch \in Chans : Range(plot_buffers[ch]) \subseteq Range(received)

\* Every occurrence of an operation of `later` in seq has x before it.
Precedes(seq, x, later) ==
  \A i \in 1..Len(seq) :
     seq[i] \in later => \E j \in 1..(i - 1) : seq[j] = x

\* C16: a start attempt writes the header at most once, and before it issues
\* the start-stream command and before it starts the timer; in a session that
\* streams the header is the first line written to the log, ahead of every
\* scan line, and no header is written after it; and the log's file, once it
\* holds a line, begins with the header and holds no second one.
C16_HeaderOnceBeforeStreaming ==
  /\ ev.name = "start" =>
       /\ Count(ops, "write") <= 1
       /\ Precedes(ops, "write", {"eStreamStart", "timer.start"})
       /\ ev.arg = "none" => handed = Header
  /\ timerActive =>
       /\ Len(Written) >= 1 /\ Written[1] = HeaderRow
       /\ \A i \in 2..Len(Written) :
            Written[i] # HeaderRow /\ Written[i][1] # HeaderRow[1]
  /\ (HasLog /\ Len(Log) >= 1) =>
       /\ Log[1] = HeaderRow
       /\ \A i \in 2..Len(Log) : Log[i] # HeaderRow /\ Log[i][1] # HeaderRow[1]
\* A session with the header and two scan lines in its log's file.
C16_Witness ==
  /\ timerActive /\ ev.name = "poll" /\ Len(Written) >= 3 /\ Len(Log) = 3
  /\ Log[1] = HeaderRow /\ Log[2] # HeaderRow /\ Log[3] # HeaderRow

\* The values a channel's deque, its curve and its log column may hold: the
\* channel's samples of the complete scans received so far.
SamplesOf(ch) == {Sample(ch, k) : k \in 1..total}
LogColumn(content, ch) == {ParseFloat(content[i][1 + ch]) : i \in 2..Len(content)}

\* C17: a poll whose block ends in a partial scan processes the complete
\* scans only (all floor(len/K) of them when no log write raises): they are
\* what is appended to the deques and to the log; the partial scan's values
\* enter no deque, no curve and no log line, and the next poll's block is
\* read from its own first value (every deque and log column keeps holding
\* samples of its own channel only).
C17_PartialScanIsDiscarded ==
  [][(ev'.name = "poll" /\ ev'.arg = "block") =>
       \A written \in {Rows(handed')}, logged \in {Rows(files'[logName'])} :
       /\ \A ch \in Chans :
            /\ Range(plot_buffers'[ch]) \subseteq SamplesOf(ch)'
            /\ Range(curves'[ch]) \subseteq SamplesOf(ch)'
            /\ LogColumn(written, ch) \subseteq SamplesOf(ch)'
            /\ LogColumn(logged, ch) \subseteq SamplesOf(ch)'
       /\ (ev'.partial /\ ev'.failAt = 0) =>
            /\ total' = total + ev'.n
            /\ Len(written) = Len(Written) + ev'.n
            /\ \A ch \in Chans :
                 plot_buffers'[ch] =
                   LastN(plot_buffers[ch] \o KeptEvery(ch, total, ev'.n, decimation),
                         plot_buffer_size)]_vars
\* Two scans were received, the last poll's block being one scan followed by
\* a partial scan: the deques hold the two complete scans.
C17_Witness ==
  /\ ev.name = "poll" /\ ev.arg = "block" /\ ev.n = 1 /\ ev.partial
  /\ ev.failAt = 0 /\ timerActive /\ total = 2
  /\ \A ch \in Chans : plot_buffers[ch] = <<Sample(ch, 1), Sample(ch, 2)>>

\* C18 as stated: a poll whose display refresh fails (the sink raises) has no
\* effect on acquisition: the session keeps streaming with its handles open,
\* and what the poll put in the deques and the log stays.
C18_SinkFailureLeavesAcquisitionAlone ==
  [][(ev'.name = "poll" /\ ~ev'.sinkOk) =>
       /\ timerActive' /\ stop_btn' /\ ~start_btn'
       /\ handle' = handle /\ conns' = conns /\ streamOn' = streamOn
       /\ file_handle' = file_handle /\ openFiles' = openFiles
       /\ ~ErrorPrinted(ops')]_vars

\* C19 as stated: whenever the timer is not running (the session is Idle) no
\* resource is held: no stored device handle, no open device connection, no
\* stored file handle, no open file.
C19_IdleHoldsNoResource ==
  ~timerActive => /\ handle = None /\ conns = {} /\ streamOn = {}
                  /\ file_handle = None /\ openFiles = {}

\* C20 as stated: at every callback boundary exactly one of the two buttons is enabled,
\* the stop button exactly when the read timer is running; so every run of
\* start_streaming (the start button's handler) begins with the timer
\* stopped.
C20_ExactlyOneControlEnabled ==
  /\ [](/\ start_btn # stop_btn
        /\ stop_btn <=> timerActive)
  /\ [][ev'.name = "start" => (~timerActive /\ start_btn)]_vars

\* C21 as stated: a start never modifies or truncates a log that exists
\* already: every earlier session's log still reads back the scans written
\* to it.
C21_StartKeepsEarlierLogs ==
  [][ev'.name = "start" =>
       \A f \in DOMAIN files :
          f \in DOMAIN files' /\ ReadBack(files'[f]) = ReadBack(files[f])]_vars

\* C22 as stated: at every callback boundary each scan of the session that is
\* in the deques is also in the session's log.
C22_BufferedScansAreLogged ==
  HasLog =>
    \A ch \in Chans :
       \A v \in Range(plot_buffers[ch]) \cap Range(received) :
          v \in LogColumn(Log, ch)

(* ====================================================================== *)
(* TraceDataModel (src/dataModels.py): named channels, each with a master  *)
(* array (_maindata) and a processed array (_filtdata).  The arrays are    *)
(* numpy arrays: a dictionary entry refers to an array's storage, and two  *)
(* entries may refer to the same storage (matrix[i,:].reshape(-1) is a     *)
(* view of the matrix, and an assignment binds a name to an existing       *)
(* array).  `arrays` is that storage, an entry is an index into it.        *)
(* Values are floats, held here as exact fractions <<numerator,            *)
(* denominator>> in lowest terms.                                          *)
(* ====================================================================== *)
\* Method calls on the model after its construction, over the whole run.
MaxCalls == 3

RECURSIVE GCD(_, _)
GCD(a, b) == IF b = 0 THEN a ELSE GCD(b, a % b)
Frac(n, d) == LET g == GCD(n, d) IN <<n \div g, d \div g>>
FromInt(n) == <<n, 1>>
FracMulInt(x, k) == Frac(x[1] * k, x[2])
FracSub(x, y) == Frac(x[1] * y[2] - y[1] * x[2], x[2] * y[2])
FracDiv(x, y) == Frac(x[1] * y[2], x[2] * y[1])
FracLeq(x, y) == x[1] * y[2] <= y[1] * x[2]
ArrMax(a) == CHOOSE v \in Range(a) : \A w \in Range(a) : FracLeq(w, v)
ArrMin(a) == CHOOSE v \in Range(a) : \A w \in Range(a) : FracLeq(v, w)

\* The channelNames lists and the float matrices given to the constructor
\* and to setAll: channels on rows, channels on columns (transposed by
\* setAll), and a matrix with no dimension of len(channelNames).
NameLists == { <<"a", "b">>, <<"b", "a">>, <<"a", "time">>, <<"Time", "b">> }
Matrices == { <<<<0, 2>>, <<1, 1>>>>,
              <<<<0, 1>>, <<3, 1>>, <<6, 3>>>>,
              <<<<0, 2, 0, 2, 0, 2, 0>>, <<1, 1, 1, 1, 1, 1, 3>>>>,
              <<<<1, 2, 3>>>> }
\* Every name a method may be called with.
Names == UNION {Range(nl) : nl \in NameLists} \cup {"time"}
Shape(matrix) == <<Len(matrix), Len(matrix[1])>>
Transpose(matrix) ==
  [j \in 1..Len(matrix[1]) |-> [i \in 1..Len(matrix) |-> matrix[i][j]]]
InShape(k, matrix) == Shape(matrix)[1] = k \/ Shape(matrix)[2] = k
\* matrix.shape.index(k), 0-based: the first dimension equal to k.
ShapeIndex(k, matrix) == IF Shape(matrix)[1] = k THEN 0 ELSE 1
\* np.arange(n)
Arange(n) == [i \in 1..n |-> FromInt(i - 1)]

\* The characters of a name, str.lower() of a character, and `x in y` for
\* two strings.
Spell(n) ==
  CASE n = "a" -> <<"a">>
    [] n = "b" -> <<"b">>
    [] n = "time" -> <<"t", "i", "m", "e">>
    [] n = "Time" -> <<"T", "i", "m", "e">>
LowerChar(c) ==
  CASE c = "T" -> "t"
    [] OTHER -> c
Lower(w) == [i \in 1..Len(w) |-> LowerChar(w[i])]
Contains(w, part) ==
  \E i \in 0..(Len(w) - Len(part)) : SubSeq(w, i + 1, i + Len(part)) = part

\* The length sosfiltfilt pads a one-section filter's input by; an input no
\* longer than it makes sosfiltfilt raise ValueError.
PadLen == 6
\* normalize's default argument (name=None).
NoName == "None"

\* The object, as one record, at method entry.  ints: the arrays of integer
\* dtype (those np.arange made).
CurModel ==
  [names |-> names, maindata |-> maindata, filtdata |-> filtdata,
   replaceMuscles |-> replaceMuscles, arrays |-> arrays, ints |-> ints]

\* d[k] = v for a dictionary d.
Assign(d, k, v) == (k :> v) @@ d

\* for n in name: if max != min: self._filtdata[n] /= (max - min), in place.
\* A name that is no key raises KeyError and an array of integer dtype cannot
\* take the quotient (numpy raises): the loop ends there.
RECURSIVE NormalizeEach(_, _)
NormalizeEach(m, nl) ==
  IF nl = <<>> THEN m
  ELSE IF Head(nl) \notin DOMAIN m.filtdata THEN m
  ELSE LET id == m.filtdata[Head(nl)]
           a == m.arrays[id]
           max == ArrMax(a)
           min == ArrMin(a)
       IN IF max = min THEN NormalizeEach(m, Tail(nl))
          ELSE IF id \in m.ints THEN m
          ELSE NormalizeEach(
                 [m EXCEPT !.arrays[id] =
                    [i \in 1..Len(a) |-> FracDiv(a[i], FracSub(max, min))]],
                 Tail(nl))
\* 'time' in n.lower()
IsTimeName(n) == Contains(Lower(Spell(n)), Spell("time"))
normalize(m, name) ==
  NormalizeEach(m, IF name = NoName
                     THEN SelectSeq(m.names, LAMBDA n : ~IsTimeName(n))
                     ELSE <<name>>)

\* The row a name gets in `for i, n in enumerate(self._names)`: the entry of
\* a name is assigned once per occurrence, so the last one stays.
RowOf(channelNames, n) ==
  CHOOSE i \in 1..Len(channelNames) :
     /\ channelNames[i] = n
     /\ \A j \in (i + 1)..Len(channelNames) : channelNames[j] # n

\* setAll: the rows of the (possibly transposed) matrix become the arrays;
\* _maindata[n] and _filtdata[n] are both views of row i, that is, of one
\* storage.  Unless 'time' is one of the names, 'time' gets two separate
\* np.arange arrays.  A matrix with no dimension of len(channelNames) raises
\* ValueError after _names is set.
setAll(m, channelNames, matrix) ==
  LET m0 == [m EXCEPT !.names = channelNames]
  IN IF ~InShape(Len(channelNames), matrix) THEN m0
     ELSE
       LET mat == IF ShapeIndex(Len(channelNames), matrix) = 1
                    THEN Transpose(matrix) ELSE matrix
           rows == [i \in 1..Len(channelNames) |->
                      [j \in 1..Len(mat[i]) |-> FromInt(mat[i][j])]]
           byName == [n \in Range(channelNames) |->
                        Len(m.arrays) + RowOf(channelNames, n)]
           m1 == [m0 EXCEPT !.arrays = @ \o rows,
                            !.maindata = byName,
                            !.filtdata = byName]
           m2 == normalize(m1, NoName)
           t1 == Len(m2.arrays) + 1
       IN IF "time" \notin Range(channelNames)
            THEN [m2 EXCEPT !.arrays = @ \o <<Arange(Len(mat[1])),
                                              Arange(Len(mat[1]))>>,
                            !.ints = @ \cup {t1, t1 + 1},
                            !.maindata = Assign(@, "time", t1),
                            !.filtdata = Assign(@, "time", t1 + 1)]
            ELSE m2

\* self._replaceMuscles[target] = source, then
\* self._filtdata[target] = self._maindata[source], which raises KeyError when
\* source is no key.
setReplace(m, source, target) ==
  IF source \notin Range(m.names) \/ target \notin Range(m.names) THEN m
  ELSE LET m1 == [m EXCEPT !.replaceMuscles = Assign(@, target, source)]
       IN IF source \notin DOMAIN m.maindata THEN m1
          ELSE [m1 EXCEPT !.filtdata = Assign(@, target, m.maindata[source])]

clearReplace(m, target) ==
  IF target \notin DOMAIN m.maindata THEN m
  ELSE [m EXCEPT !.filtdata = Assign(@, target, m.maindata[target]),
                 !.replaceMuscles = <<>>]

get(m, name) == m.arrays[m.filtdata[name]]

\* for n in self._names: self._filtdata[n] *= factor, in place, one name
\* after the other; a name that is no key raises KeyError and ends the loop.
RECURSIVE RescaleEach(_, _, _)
RescaleEach(m, nl, factor) ==
  IF nl = <<>> THEN m
  ELSE IF Head(nl) \notin DOMAIN m.filtdata THEN m
  ELSE LET id == m.filtdata[Head(nl)]
       IN RescaleEach([m EXCEPT !.arrays[id] =
                         [i \in 1..Len(@) |-> FracMulInt(@[i], factor)]],
                      Tail(nl), factor)
rescale(m, factor) == RescaleEach(m, m.names, factor)

\* self._filtdata[n] = sosfiltfilt(filtsos, self._filtdata[n]) for the
\* one-section filter of gain g (sos = [[g, 0, 0, 1, 0, 0]]): run forward and
\* backward it returns a new float array, the input times g * g.
filter(m, name, g) ==
  IF name \notin DOMAIN m.filtdata THEN m
  ELSE LET a == m.arrays[m.filtdata[name]]
       IN IF Len(a) <= PadLen THEN m
          ELSE [m EXCEPT !.arrays = Append(@, [i \in 1..Len(a) |->
                                                FracMulInt(a[i], g * g)]),
                         !.filtdata[name] = Len(m.arrays) + 1]

restore(m, name) ==
  LET from == IF name \in DOMAIN m.replaceMuscles
                THEN m.replaceMuscles[name] ELSE name
  IN IF from \notin DOMAIN m.maindata THEN m
     ELSE [m EXCEPT !.filtdata = Assign(@, name, m.maindata[from])]

(* ------------------- the TraceDataModel state machine ------------------ *)
svars == <<handle, file_handle, timerActive, start_btn, stop_btn, plot_buffers,
           scan_rate, read_interval, windowOpen, curves, conns, streamOn,
           devScans, nextConn, files, openFiles, pending, wbuf, clock, ops, ev, logName,
           handed, lost, received, wfail, faulted, appended, total>>

ApplyModel(m) ==
  /\ names' = m.names
  /\ maindata' = m.maindata
  /\ filtdata' = m.filtdata
  /\ replaceMuscles' = m.replaceMuscles
  /\ arrays' = m.arrays
  /\ ints' = m.ints

Factors == {2}
Gains == {2}
GoodMatrices == {mx \in Matrices : InShape(num_channels, mx)}
\* The values setAll was given, by channel, and the time channel it made.
Given(channelNames, matrix) ==
  LET mat == IF ShapeIndex(Len(channelNames), matrix) = 1
               THEN Transpose(matrix) ELSE matrix
  IN [n \in Range(channelNames) \cup {"time"} |->
        IF n \in Range(channelNames)
          THEN [j \in 1..Len(mat[1]) |->
                  FromInt(mat[RowOf(channelNames, n)][j])]
          ELSE Arange(Len(mat[1]))]
Call(name, arg, arg2) == [name |-> name, arg |-> arg, arg2 |-> arg2]
Called(m, c) ==
  /\ ncalls < MaxCalls
  /\ ApplyModel(m)
  /\ call' = c
  /\ ncalls' = ncalls + 1
  /\ UNCHANGED svars

\* TraceDataModel(channelNames, matrix): setAll, then _replaceMuscles = {}.
InitTrace ==
  /\ InitProgram
  /\ scan_rate = DefaultScanRate
  /\ read_interval = DefaultReadInterval
  /\ \E channelNames \in NameLists, matrix \in GoodMatrices :
       LET m == setAll([names |-> <<>>, maindata |-> <<>>, filtdata |-> <<>>,
                        replaceMuscles |-> <<>>, arrays |-> <<>>, ints |-> {}],
                       channelNames, matrix)
       IN /\ names = m.names /\ maindata = m.maindata /\ filtdata = m.filtdata
          /\ arrays = m.arrays /\ ints = m.ints
          /\ replaceMuscles = <<>>
          /\ loaded = Given(channelNames, matrix)
  /\ call = Call("init", "none", "none")
  /\ ncalls = 0

SetAll ==
  \E channelNames \in NameLists, matrix \in Matrices :
    /\ Called(setAll(CurModel, channelNames, matrix),
              Call("setAll", "none", "none"))
    /\ loaded' = IF matrix \in GoodMatrices THEN Given(channelNames, matrix)
                                            ELSE loaded
SetReplace ==
  \E source \in Names, target \in Names :
    /\ Called(setReplace(CurModel, source, target),
              Call("setReplace", source, target))
    /\ UNCHANGED loaded
ClearReplace ==
  \E target \in Names :
    /\ Called(clearReplace(CurModel, target), Call("clearReplace", target, "none"))
    /\ UNCHANGED loaded
Normalize ==
  \E name \in {NoName} \cup Names :
    /\ Called(normalize(CurModel, name), Call("normalize", name, "none"))
    /\ UNCHANGED loaded
Rescale ==
  \E factor \in Factors :
    /\ Called(rescale(CurModel, factor), Call("rescale", "none", "none"))
    /\ UNCHANGED loaded
Filter ==
  \E name \in Names, g \in Gains :
    /\ Called(filter(CurModel, name, g), Call("filter", name, "none"))
    /\ UNCHANGED loaded
Restore ==
  \E name \in Names :
    /\ Called(restore(CurModel, name), Call("restore", name, "none"))
    /\ UNCHANGED loaded

NextTrace ==
  SetAll \/ SetReplace \/ ClearReplace \/ Normalize \/ Rescale \/ Filter \/ Restore
SpecTrace == InitTrace /\ [][NextTrace]_vars

\* The master data of a channel.
Master(name) == arrays[maindata[name]]

\* C23 as stated: the master data of every channel equals the values given to
\* setAll, whatever processing was applied since.
C23_MasterIsNeverChanged ==
  \A n \in DOMAIN maindata : Master(n) = loaded[n]

\* C24 as stated: clearReplace(target) leaves the substitution record and the
\* processed data of every other channel as they were.
C24_ClearReplaceUndoesOnlyTarget ==
  [][call'.name = "clearReplace" =>
       \A t2 \in DOMAIN replaceMuscles \ {call'.arg} :
          /\ t2 \in DOMAIN replaceMuscles'
          /\ replaceMuscles'[t2] = replaceMuscles[t2]
          /\ t2 \in DOMAIN filtdata =>
               (t2 \in DOMAIN filtdata'
                /\ arrays'[filtdata'[t2]] = arrays[filtdata[t2]])]_vars

====
